---- MODULE Spec2Model ----
(***************************************************************************)
(* Model of chapter_04/classification.py: the indicator-matrix transform,  *)
(* the least-squares, linear-discriminant and quadratic-discriminant       *)
(* classifiers (fit = __init__, classify) and classification_error_rate.   *)
(*                                                                         *)
(* Numbers.  The code computes in IEEE doubles; the model computes in      *)
(* exact rationals [n, d] (d > 0, lowest terms) extended with NaN and      *)
(* +/-inf (d = 0).  Feature values are small integers.                     *)
(* np.log is kept symbolic: a score is r + 1/2 ln(q) with r, q rational;   *)
(* the order of two scores that differ as real numbers is decided in       *)
(* fixed point (4 digits).                                                 *)
(*                                                                         *)
(* Rounding.  Two scores that are equal as real numbers are equal doubles  *)
(* when every operation that produced them is exact (all operands are      *)
(* dyadic, the pivots of the inversion are powers of two) and the          *)
(* logarithms they carry are those of the same double.  Otherwise the      *)
(* last bits depend on the order of the floating-point operations (BLAS,   *)
(* LAPACK, fused multiply-add): either score may come out larger, or       *)
(* neither.  The variable rounding holds what the build at hand does on    *)
(* the rows it is given; it does the same on every call.                   *)
(*                                                                         *)
(* Singular matrices.  np.linalg.inv raises LinAlgError only when a pivot  *)
(* of the LU factorisation is exactly 0.0.  For a matrix that is singular  *)
(* as a real matrix the last pivot is exactly zero when the elimination    *)
(* is exact; otherwise it is a rounding residue that may be zero, positive *)
(* or negative, depending on the build.  The constructors take that        *)
(* outcome as an input.  With a non-zero residue the inverse holds finite  *)
(* doubles whose values the model does not know (Unknown).                 *)
(*                                                                         *)
(* Library semantics are those of the pandas/numpy releases the code runs  *)
(* with under Python 3 (positional axis arguments: pandas 0.22 to 1.x,     *)
(* numpy 1.x).  Where these releases differ (groupby.apply on a frame      *)
(* without groups) the model takes the release as an input.                *)
(***************************************************************************)
EXTENDS Integers, Sequences, FiniteSets, TLC

\* ------------------------------------------------------------------ bounds
MaxLabel == 2        \* labels are 1..MaxLabel
MaxSamples == 1      \* rows of a matrix passed to classify / error rate

Labels == 1..MaxLabel

\* The feature space: p = 2 numeric columns, integer valued.
PointSeq == << <<0, 0>>, <<0, 1>>, <<1, 0>>, <<1, 1>> >>
Points == {PointSeq[i] : i \in 1..Len(PointSeq)}

\* The label pandas/numpy use for "missing" (float nan); never a class label.
NaN == 0

\* An array held in full (np.array, DataFrame.values): the entries are
\* computed once, when the array is built.
Array(f) == f \o <<>>

\* ------------------------------------------------------------- rationals
Abs(x) == IF x < 0 THEN -x ELSE x

RECURSIVE Gcd(_, _)
Gcd(a, b) == IF b = 0 THEN a ELSE Gcd(b, a % b)

QNaN == [n |-> 0, d |-> 0]
Inf(s) == [n |-> s, d |-> 0]
IsFinite(x) == x.d # 0

\* A finite double whose value only the rounding of the build decides; a
\* rounding residue of known sign.  IsBad: nan or inf.
Unknown == [n |-> 2, d |-> 0]
Residue(sign) == [n |-> 3 * sign, d |-> 0]
IsUnknown(x) == x.d = 0 /\ (x.n >= 2 \/ x.n <= -2)
IsBad(x) == x.d = 0 /\ ~IsUnknown(x)

Rat(n, d) ==
    IF d = 0 THEN (IF n = 0 THEN QNaN ELSE Inf(IF n > 0 THEN 1 ELSE -1))
    ELSE LET g == Gcd(Abs(n), Abs(d))
             s == IF d < 0 THEN -1 ELSE 1
         IN  [n |-> (s * n) \div g, d |-> (s * d) \div g]

R(i) == [n |-> i, d |-> 1]
Zero == R(0)
Half == [n |-> 1, d |-> 2]

\* nan and inf operands only occur as entries of a covariance divided by
\* zero, which the code passes to np.linalg.inv alone; every other
\* operation on them yields nan.  An unknown finite operand gives an
\* unknown finite result, except that its product with an exact zero is
\* zero.
RAdd(x, y) == IF IsBad(x) \/ IsBad(y) THEN QNaN
              ELSE IF IsUnknown(x) \/ IsUnknown(y) THEN Unknown
              ELSE Rat(x.n * y.d + y.n * x.d, x.d * y.d)
RNeg(x) == IF IsBad(x) THEN QNaN
           ELSE IF IsUnknown(x) THEN Unknown
           ELSE [n |-> -x.n, d |-> x.d]
RSub(x, y) == RAdd(x, RNeg(y))
RMul(x, y) == IF IsBad(x) \/ IsBad(y) THEN QNaN
              ELSE IF x = [n |-> 0, d |-> 1] \/ y = [n |-> 0, d |-> 1]
                   THEN [n |-> 0, d |-> 1]
              ELSE IF IsUnknown(x) \/ IsUnknown(y) THEN Unknown
              ELSE Rat(x.n * y.n, x.d * y.d)
RDiv(x, y) == IF IsBad(x) \/ IsBad(y) THEN QNaN
              ELSE IF IsUnknown(x) \/ IsUnknown(y) THEN Unknown
              ELSE Rat(x.n * y.d, x.d * y.n)
RLess(x, y) == IsFinite(x) /\ IsFinite(y) /\ x.n * y.d < y.n * x.d
RLeq(x, y) == IsFinite(x) /\ IsFinite(y) /\ x.n * y.d <= y.n * x.d

\* ------------------------------------------- numbers with a logarithm
\* [r, q] stands for r + 1/2 ln(q), q > 0: what np.log contributes to the
\* discriminant constants.  ln(x) = 1/2 ln(x^2).
LNaN == [r |-> QNaN, q |-> QNaN]
LIsNaN(a) == IsBad(a.r) \/ IsBad(a.q)
LIsUnknown(a) == ~LIsNaN(a) /\ (IsUnknown(a.r) \/ IsUnknown(a.q))
LNum(x) == IF IsBad(x) THEN LNaN ELSE [r |-> x, q |-> R(1)]
Log(x) == IF IsFinite(x) /\ x.n > 0 THEN [r |-> Zero, q |-> RMul(x, x)] ELSE LNaN
\* 1/2 ln(x); of a positive rounding residue an unknown finite number, of a
\* negative one nan.
HalfLog(x) == IF IsFinite(x) /\ x.n > 0 THEN [r |-> Zero, q |-> x]
              ELSE IF x = Residue(1) THEN [r |-> Unknown, q |-> R(1)]
              ELSE LNaN
LAdd(a, b) == IF LIsNaN(a) \/ LIsNaN(b) THEN LNaN
              ELSE [r |-> RAdd(a.r, b.r), q |-> RMul(a.q, b.q)]
LSub(a, b) == IF LIsNaN(a) \/ LIsNaN(b) THEN LNaN
              ELSE [r |-> RSub(a.r, b.r), q |-> RDiv(a.q, b.q)]

\* 10^4 ln(n / d) for integers n, d >= 1, by halving into [1, 2) and the
\* series ln(m) = 2 atanh((m - 1) / (m + 1)).
RECURSIVE Log2Floor(_, _)
Log2Floor(n, d) == IF n < 2 * d THEN 0 ELSE 1 + Log2Floor(n, 2 * d)

RECURSIVE Pow2(_)
Pow2(k) == IF k = 0 THEN 1 ELSE 2 * Pow2(k - 1)

LnFixUnit(n, d) ==      \* d <= n < 2 d
    LET z  == ((n - d) * 10000) \div (n + d)
        z2 == (z * z) \div 10000
        t3 == (z * z2) \div 10000
        t5 == (t3 * z2) \div 10000
        t7 == (t5 * z2) \div 10000
    IN  2 * (z + (t3 \div 3) + (t5 \div 5) + (t7 \div 7))

LnFixGe1(n, d) ==       \* n >= d
    LET k == Log2Floor(n, d)
    IN  k * 6931 + LnFixUnit(n, d * Pow2(k))

LnFix(x) == IF x.n >= x.d THEN LnFixGe1(x.n, x.d) ELSE -LnFixGe1(x.d, x.n)

RFix(x) == (x.n * 10000) \div x.d

\* a > b for two known real values r + 1/2 ln(q).
LGt(a, b) ==
    /\ ~LIsNaN(a) /\ ~LIsUnknown(a)
    /\ ~LIsNaN(b) /\ ~LIsUnknown(b)
    /\ IF a.q = b.q THEN RLess(b.r, a.r)
       ELSE IF a.r = b.r THEN RLess(b.q, a.q)
       ELSE 2 * RFix(RSub(a.r, b.r)) + LnFix(RDiv(a.q, b.q)) > 0

\* A score as the double the code holds: the real value and what the
\* rounding of the build did to it (lift).  A known value is lifted one
\* unit in the last place above its equals (1) or not (0); an unknown
\* value came out above every other score of its row (2) or below every
\* known one (-2).  a > b as the comparison of two doubles (False when
\* either is nan).
ScoreGt(a, b) ==
    /\ ~LIsNaN(a)
    /\ ~LIsNaN(b)
    /\ IF LIsUnknown(a) \/ LIsUnknown(b) THEN a.lift > b.lift
       ELSE \/ LGt(a, b)
            \/ a.r = b.r /\ a.q = b.q /\ a.lift > b.lift

\* The scores of one row as doubles; fav is the column the rounding
\* favours, 0 when it favours none.
Rounded(row, fav) ==
    [j \in 1..Len(row) |->
        IF LIsNaN(row[j]) THEN [r |-> QNaN, q |-> QNaN, lift |-> 0]
        ELSE IF LIsUnknown(row[j])
             THEN [r |-> Unknown, q |-> R(1), lift |-> IF j = fav THEN 2 ELSE -2]
        ELSE [r |-> row[j].r, q |-> row[j].q, lift |-> IF j = fav THEN 1 ELSE 0]]

\* Numbers a double holds exactly, and those whose reciprocal it holds too.
IsPow2(n) == n >= 1 /\ n = Pow2(Log2Floor(n, 1))
Dyadic(x) == IsFinite(x) /\ IsPow2(x.d)
PowerOfTwo(x) ==
    /\ IsFinite(x)
    /\ \/ Abs(x.n) = 1 /\ IsPow2(x.d)
       \/ x.d = 1 /\ x.n # 0 /\ IsPow2(Abs(x.n))

\* ---------------------------------------------------- vectors, matrices
RECURSIVE SumSeq(_)
SumSeq(s) == IF s = <<>> THEN Zero ELSE RAdd(Head(s), SumSeq(Tail(s)))

VR(pt) == Array([i \in 1..Len(pt) |-> R(pt[i])])
VAdd(u, v) == Array([i \in 1..Len(u) |-> RAdd(u[i], v[i])])
VSub(u, v) == Array([i \in 1..Len(u) |-> RSub(u[i], v[i])])
VScale(c, u) == Array([i \in 1..Len(u) |-> RMul(c, u[i])])
VDiv(u, c) == Array([i \in 1..Len(u) |-> RDiv(u[i], c)])
Dot(u, v) == SumSeq([i \in 1..Len(u) |-> RMul(u[i], v[i])])
Outer(u, v) == Array([i \in 1..Len(u) |-> [j \in 1..Len(v) |-> RMul(u[i], v[j])]])
MZero == [i \in 1..2 |-> [j \in 1..2 |-> Zero]]
MNaN == [i \in 1..2 |-> [j \in 1..2 |-> QNaN]]
MAdd(a, b) == Array([i \in 1..2 |-> [j \in 1..2 |-> RAdd(a[i][j], b[i][j])]])
MDiv(a, c) == Array([i \in 1..2 |-> [j \in 1..2 |-> RDiv(a[i][j], c)]])
MatVec(a, v) == Array([i \in 1..2 |-> Dot(a[i], v)])
MFinite(a) == \A i \in 1..2 : \A j \in 1..2 : IsFinite(a[i][j])

RECURSIVE MSum(_)
MSum(s) == IF s = <<>> THEN MZero ELSE MAdd(Head(s), MSum(Tail(s)))

RECURSIVE VSum(_)
VSum(s) == IF s = <<>> THEN <<Zero, Zero>> ELSE VAdd(Head(s), VSum(Tail(s)))

\* The determinant as a real number.
Det(a) == IF MFinite(a)
          THEN RSub(RMul(a[1][1], a[2][2]), RMul(a[1][2], a[2][1]))
          ELSE QNaN

\* The matrix is singular as a real matrix.
RankDeficient(a) == MFinite(a) /\ Det(a) = Zero

\* Partial pivoting on the first column: the row of the larger entry.
PivotRow(a) ==
    IF Abs(a[1][1].n) * a[2][1].d >= Abs(a[2][1].n) * a[1][1].d THEN 1 ELSE 2

\* The LU elimination rounds nowhere: the entries are dyadic and the
\* multiplier is zero or has a power of two as divisor (exact whether the
\* library divides by the pivot or multiplies by its reciprocal), or the
\* first column is zero.
DyadicRows(m) == \A i \in DOMAIN m : \A j \in DOMAIN m[i] : Dyadic(m[i][j])
ExactLU(a) ==
    /\ MFinite(a)
    /\ DyadicRows(a)
    /\ LET top == PivotRow(a)
       IN  \/ a[top][1] = Zero
           \/ a[3 - top][1] = Zero
           \/ PowerOfTwo(a[top][1])

\* The outcomes of an elimination that rounds, for the last pivot of a
\* rank-deficient matrix: exactly zero, or a residue of either sign.
LuOutcomes == {"zero", "positive", "negative"}

\* np.linalg.inv raises LinAlgError: a pivot is exactly 0.0.  A matrix with
\* nan/inf entries has no zero pivot.
Singular(a, lu) == RankDeficient(a) /\ (ExactLU(a) \/ lu = "zero")

\* np.linalg.inv where it returns: all nan for a matrix with nan/inf
\* entries; finite doubles of unknown value when the last pivot is a
\* rounding residue.
MUnknown == [i \in 1..2 |-> [j \in 1..2 |-> Unknown]]
Inv(a) ==
    IF ~MFinite(a) THEN MNaN
    ELSE IF RankDeficient(a) THEN MUnknown
    ELSE LET dt == Det(a)
         IN  << <<RDiv(a[2][2], dt), RDiv(RNeg(a[1][2]), dt)>>,
                <<RDiv(RNeg(a[2][1]), dt), RDiv(a[1][1], dt)>> >>

\* np.linalg.det, the product of the pivots: a residue of the sign of the
\* last pivot for a rank-deficient matrix whose elimination rounded.
LuDet(a, lu) ==
    IF RankDeficient(a) /\ ~Singular(a, lu)
    THEN Residue(IF lu = "negative" THEN -1 ELSE 1)
    ELSE Det(a)

\* np.linalg.inv rounds nowhere: the entries are dyadic and both pivots of
\* the LU factorisation (partial pivoting on the first column) are powers
\* of two, so the multiplier, the reciprocals and the products are exact.
ExactInv(a) ==
    /\ MFinite(a)
    /\ DyadicRows(a)
    /\ ~RankDeficient(a)
    /\ LET top == PivotRow(a)
           low == 3 - top
           l == RDiv(a[low][1], a[top][1])
       IN  /\ PowerOfTwo(a[top][1])
           /\ PowerOfTwo(RSub(a[low][2], RMul(l, a[top][2])))

\* ------------------------------------------------------------- helpers
Range(s) == {s[i] : i \in DOMAIN s}

RECURSIVE SortedSeq(_)
SortedSeq(S) ==
    IF S = {} THEN <<>>
    ELSE LET m == CHOOSE x \in S : \A y \in S : x <= y
         IN  <<m>> \o SortedSeq(S \ {m})

\* sorted(set(values))
Classes(values) == SortedSeq(Range(values))

IndexOf(seq, c) == CHOOSE j \in DOMAIN seq : seq[j] = c

\* The rows of X whose label in y is c, in row order.
RowsOf(X, y, c) ==
    LET idx == SortedSeq({i \in DOMAIN X : y[i] = c})
    IN  Array([k \in 1..Len(idx) |-> X[idx[k]]])

Mean(rows) == VDiv(VSum(rows), R(Len(rows)))

\* A pandas sum over one row of a frame (skipna): nan entries are left out.
NanSum(s) ==
    LET kept == SortedSeq({i \in DOMAIN s : ~IsBad(s[i])})
    IN  SumSeq([k \in 1..Len(kept) |-> s[kept[k]]])

\* row.idxmax(): the column label of the first maximum, nan entries
\* skipped; nan when every entry is nan.
RECURSIVE ArgMaxScan(_, _, _)
ArgMaxScan(row, j, best) ==
    IF j > Len(row) THEN best
    ELSE IF LIsNaN(row[j]) THEN ArgMaxScan(row, j + 1, best)
    ELSE IF best = 0 \/ ScoreGt(row[j], row[best]) THEN ArgMaxScan(row, j + 1, j)
    ELSE ArgMaxScan(row, j + 1, best)

\* Variant: the last maximum in place of the first.
idxmax_last(row, columns) ==
    LET valid == {j \in DOMAIN row : ~LIsNaN(row[j])}
    IN  IF valid = {} THEN NaN
        ELSE columns[CHOOSE j \in valid :
                 /\ \A i \in valid : ~ScoreGt(row[i], row[j])
                 /\ \A i \in valid : i > j => ScoreGt(row[j], row[i])]

idxmax(row, columns) ==
    LET j == ArgMaxScan(row, 1, 0)
    IN  IF j = 0 THEN NaN ELSE columns[j]

\* The columns that hold the maximum of a row, equal scores included.
Maxima(row) ==
    {j \in DOMAIN row :
        /\ ~LIsNaN(row[j])
        /\ \A i \in DOMAIN row :
              LIsNaN(row[i]) \/ row[i] = row[j] \/ ScoreGt(row[j], row[i])}

\* ---------------------------------------------------- indicator_matrix
BoolToInt(b) == IF b THEN 1 ELSE 0

\* Variant: the columns labelled in descending order.
indicator_matrix_unsorted(values) ==
    LET classes == [j \in 1..Len(Classes(values)) |->
                       Classes(values)[Len(Classes(values)) + 1 - j]]
    IN  [error |-> "none",
         columns |-> classes,
         rows |-> [i \in 1..Len(values) |->
                     [j \in 1..Len(classes) |-> BoolToInt(values[i] = Classes(values)[j])]]]

\* Variant: values >= cls in place of values == cls.
indicator_matrix_ge(values) ==
    LET classes == Classes(values)
    IN  [error |-> "none",
         columns |-> classes,
         rows |-> [i \in 1..Len(values) |->
                     [j \in 1..Len(classes) |-> BoolToInt(values[i] >= classes[j])]]]

\* One column per class, in sorted order: y[cls] = (values == cls), as int.
\* An empty label vector gives the empty frame: no column, no row.
indicator_matrix(values) ==
    LET classes == Classes(values)
    IN  [error |-> "none",
         columns |-> classes,
         rows |-> [i \in 1..Len(values) |->
                     [j \in 1..Len(classes) |-> BoolToInt(values[i] = classes[j])]]]

\* ------------------------------------------------------- fit outcomes
NoModel == [kind |-> "none"]
Fitted(m, steps) == [status |-> "fitted", error |-> "none", linalg |-> steps, model |-> m]
Failed(e, steps) == [status |-> "failed", error |-> e, linalg |-> steps, model |-> NoModel]

Features(coords) == Array([i \in 1..Len(coords) |-> VR(coords[i])])

\* x2['y'] = values: aligned on the row index, nan where values has no row.
AlignedLabels(coords, values) ==
    [i \in 1..Len(coords) |-> IF i <= Len(values) THEN values[i] ELSE NaN]

\* pd.Series(collections.Counter(values), index=classes) / values.size
Probabilities(values, classes) ==
    [j \in 1..Len(classes) |->
        Rat(Cardinality({i \in DOMAIN values : values[i] = classes[j]}), Len(values))]

\* x2.groupby('y'): the groups are the labels present in x2, sorted.
Groups(y) == SortedSeq(Range(y) \ {NaN})
GroupMeans(X, y) == Array([g \in 1..Len(Groups(y)) |-> Mean(RowsOf(X, y, Groups(y)[g]))])

\* ------------------------------------------- LeastSquaresClassifier
\* __init__: classes, the indicator matrix, inv(X^T X), then
\* betahat = inv(X^T X) X^T Y with one column per class.
LeastSquaresClassifier(coords, values, lu) ==
    LET classes == Classes(values)
        Y == indicator_matrix(values)
        X == Features(coords)
        XtX == MSum([i \in 1..Len(X) |-> Outer(X[i], X[i])])
    IN  IF Singular(XtX, lu) THEN Failed("LinAlgError", 1)
        ELSE LET inverse_cov == Inv(XtX)
                 A == [i \in 1..Len(X) |-> MatVec(inverse_cov, X[i])]
             IN  IF Len(Y.rows) # Len(X) THEN Failed("ValueError", 3)
                 ELSE Fitted([kind |-> "LS",
                              classes |-> classes,
                              betahat |-> [j \in 1..Len(classes) |->
                                  VSum([i \in 1..Len(X) |->
                                      VScale(R(Y.rows[i][j]), A[i])])]], 4)

\* classify: yhat = samples.dot(betahat), then idxmax along each row.
\* The result keeps the row index of samples.
LeastSquaresRow(self, x) ==
    [j \in 1..Len(self.classes) |-> LNum(Dot(VR(x), self.betahat[j]))]

LeastSquaresScores(self, samples, rounding) ==
    [i \in 1..Len(samples) |->
        Rounded(LeastSquaresRow(self, samples[i]), rounding[samples[i]])]

LeastSquaresClassify(self, samples, index, rounding) ==
    LET yhat == LeastSquaresScores(self, samples, rounding)
    IN  [self |-> self,
         ret |-> [error |-> "none",
                  index |-> index,
                  labels |-> [i \in 1..Len(samples) |-> idxmax(yhat[i], self.classes)]]]

\* ------------------------------------- LinearDiscriminantClassifier
\* The first row of x2 whose label is nan: means.loc[nan] is a KeyError.
FirstNaN(y) == IF \E i \in DOMAIN y : y[i] = NaN
               THEN CHOOSE i \in DOMAIN y : y[i] = NaN /\ \A j \in 1..(i - 1) : y[j] # NaN
               ELSE 0

LinearDiscriminantClassifier(coords, values, lu) ==
    LET classes == Classes(values)
        k == Len(classes)
        n == Len(coords)
        X == Features(coords)
        probabilities == Probabilities(values, classes)
        y == AlignedLabels(coords, values)
        groups == Groups(y)
        means == GroupMeans(X, y)
    IN  IF FirstNaN(y) # 0 THEN Failed("KeyError", FirstNaN(y) - 1)
        ELSE
        LET xv == Array([i \in 1..n |-> VSub(X[i], means[IndexOf(groups, y[i])])])
            sigma == MDiv(MSum([i \in 1..n |-> Outer(xv[i], xv[i])]), R(n - k))
        IN  IF Singular(sigma, lu) THEN Failed("LinAlgError", n)
            ELSE
            LET sigma_inv == Inv(sigma)
                quad == [g \in 1..Len(groups) |->
                           NanSum([c \in 1..2 |->
                               RMul(means[g][c], MatVec(sigma_inv, means[g])[c])])]
            IN  Fitted([kind |-> "LDA",
                        classes |-> classes,
                        probabilities |-> probabilities,
                        groups |-> groups,
                        means |-> means,
                        sigma |-> sigma,
                        sigma_inv |-> sigma_inv,
                        constants |-> [j \in 1..k |->
                            IF classes[j] \in Range(groups)
                            THEN LSub(Log(probabilities[j]),
                                      LNum(RMul(Half, quad[IndexOf(groups, classes[j])])))
                            ELSE LNaN],
                        discrimination_matrix |-> [g \in 1..Len(groups) |->
                            MatVec(sigma_inv, means[g])]], n + 3)

\* classify: a new frame from np.dot(samples, discrimination_matrix) with
\* the classes as columns (ValueError when the matrix has another number
\* of columns) and a fresh 0..m-1 row index; the constants are added
\* column by column, then idxmax along each row.
LinearDiscriminantRow(self, x) ==
    [j \in 1..Len(self.classes) |->
        LAdd(LNum(Dot(VR(x), self.discrimination_matrix[j])), self.constants[j])]

LinearDiscriminantScores(self, samples, rounding) ==
    [i \in 1..Len(samples) |->
        Rounded(LinearDiscriminantRow(self, samples[i]), rounding[samples[i]])]

\* Variant: classify consumes the stored constants, leaving zeros behind.
LinearDiscriminantClassifyInPlace(self, samples, index, rounding) ==
    IF Len(self.discrimination_matrix) # Len(self.classes)
    THEN [self |-> self, ret |-> [error |-> "ValueError"]]
    ELSE
    LET df == LinearDiscriminantScores(self, samples, rounding)
    IN  [self |-> [self EXCEPT !.constants =
                      [j \in 1..Len(self.constants) |-> LNum(Zero)]],
         ret |-> [error |-> "none",
                  index |-> [i \in 1..Len(samples) |-> i - 1],
                  labels |-> [i \in 1..Len(samples) |-> idxmax(df[i], self.classes)]]]

LinearDiscriminantClassify(self, samples, index, rounding) ==
    IF Len(self.discrimination_matrix) # Len(self.classes)
    THEN [self |-> self, ret |-> [error |-> "ValueError"]]
    ELSE
    LET df == LinearDiscriminantScores(self, samples, rounding)
    IN  [self |-> self,
         ret |-> [error |-> "none",
                  index |-> [i \in 1..Len(samples) |-> i - 1],
                  labels |-> [i \in 1..Len(samples) |-> idxmax(df[i], self.classes)]]]

\* ---------------------------------- QuadraticDiscriminantClassifier
\* np.cov(rows, rowvar=0, ddof=1) of two or more rows: the rows are centred
\* again and the sum of outer products is divided by (count - 1).
Cov(rows) ==
    LET avg == Mean(rows)
        X == Array([i \in 1..Len(rows) |-> VSub(rows[i], avg)])
    IN  MDiv(MSum([i \in 1..Len(rows) |-> Outer(X[i], X[i])]), R(Len(rows) - 1))

\* What the loop over the classes does for one class: "KeyError" when the
\* class has no row in x2 (means.loc[cls]); "LinAlgError" when np.cov got
\* a single row, which it reads as one variable and answers with a scalar
\* that np.linalg.inv rejects, or when the inversion meets a zero pivot.
ClassCovariance(X, y, groups, means, cls, lu) ==
    IF cls \notin Range(groups) THEN [error |-> "KeyError"]
    ELSE LET mu == means[IndexOf(groups, cls)]
             selected == RowsOf(X, y, cls)
             resid == Array([i \in 1..Len(selected) |-> VSub(selected[i], mu)])
             cov == Cov(resid)
         IN  IF Len(selected) = 1 THEN [error |-> "LinAlgError"]
             ELSE IF Singular(cov, lu) THEN [error |-> "LinAlgError"]
             ELSE [error |-> "none", cov |-> cov, inv |-> Inv(cov), det |-> LuDet(cov, lu)]

\* x2.groupby('y').apply(...) on a frame without groups (every label nan):
\* up to pandas 1.2 the result has no column and .drop('y', 1) raises
\* KeyError; from pandas 1.3 it keeps the columns and the drop succeeds.
PandasReleases == {"1.2", "1.3"}

QuadraticDiscriminantClassifier(coords, values, pandas, lu) ==
    LET classes == Classes(values)
        X == Features(coords)
        probabilities == Probabilities(values, classes)
        y == AlignedLabels(coords, values)
        groups == Groups(y)
        means == GroupMeans(X, y)
        per == Array([j \in 1..Len(classes) |->
                        ClassCovariance(X, y, groups, means, classes[j], lu)])
        bad == {j \in 1..Len(classes) : per[j].error # "none"}
    IN  IF groups = <<>> /\ pandas = "1.2" THEN Failed("KeyError", 0)
        ELSE IF bad # {}
        THEN LET j == CHOOSE b \in bad : \A c \in bad : b <= c
             IN  Failed(per[j].error,
                        IF per[j].error = "KeyError" THEN 3 * (j - 1) ELSE 3 * (j - 1) + 1)
        ELSE Fitted([kind |-> "QDA",
                     classes |-> classes,
                     probabilities |-> probabilities,
                     groups |-> groups,
                     means |-> means,
                     covariance |-> [j \in 1..Len(classes) |-> per[j].cov],
                     covariance_inv |-> [j \in 1..Len(classes) |-> per[j].inv],
                     covariance_det |-> [j \in 1..Len(classes) |-> per[j].det],
                     constants |-> [j \in 1..Len(classes) |->
                         LSub(Log(probabilities[j]), HalfLog(per[j].det))]],
                    3 * Len(classes))

\* classify: one score column per class, const - 0.5 (x - mu)^T S^-1 (x - mu),
\* joined in class order by pd.concat, which raises ValueError when there
\* is no column to join; then idxmax along each row.  The result keeps the
\* row index of samples.
QuadraticDiscriminantRow(self, x) ==
    [j \in 1..Len(self.classes) |->
        LET xs == VSub(VR(x), self.means[IndexOf(self.groups, self.classes[j])])
            q == NanSum([c \in 1..2 |->
                     RMul(xs[c], MatVec(self.covariance_inv[j], xs)[c])])
        IN  LSub(self.constants[j], LNum(RMul(Half, q)))]

QuadraticDiscriminantScores(self, samples, rounding) ==
    [i \in 1..Len(samples) |->
        Rounded(QuadraticDiscriminantRow(self, samples[i]), rounding[samples[i]])]

QuadraticDiscriminantClassify(self, samples, index, rounding) ==
    IF self.classes = <<>>
    THEN [self |-> self, ret |-> [error |-> "ValueError"]]
    ELSE
    LET discriminant_matrix == QuadraticDiscriminantScores(self, samples, rounding)
    IN  [self |-> self,
         ret |-> [error |-> "none",
                  index |-> index,
                  labels |-> [i \in 1..Len(samples) |->
                                 idxmax(discriminant_matrix[i], self.classes)]]]

\* --------------------------------------------- the Classification surface
Scores(self, samples, rounding) ==
    CASE self.kind = "LS" -> LeastSquaresScores(self, samples, rounding)
      [] self.kind = "LDA" -> LinearDiscriminantScores(self, samples, rounding)
      [] self.kind = "QDA" -> QuadraticDiscriminantScores(self, samples, rounding)

Classify(self, samples, index, rounding) ==
    CASE self.kind = "LS" -> LeastSquaresClassify(self, samples, index, rounding)
      [] self.kind = "LDA" -> LinearDiscriminantClassify(self, samples, index, rounding)
      [] self.kind = "QDA" -> QuadraticDiscriminantClassify(self, samples, index, rounding)

\* ------------------------------------------------------------ rounding
\* The scores of one row as real numbers; none when classify raises.
Row(self, x) ==
    CASE self.kind = "LS" -> LeastSquaresRow(self, x)
      [] self.kind = "LDA" ->
            IF Len(self.discrimination_matrix) = Len(self.classes)
            THEN LinearDiscriminantRow(self, x) ELSE <<>>
      [] self.kind = "QDA" -> QuadraticDiscriminantRow(self, x)

\* The constructor rounded nowhere on the way to the parameters classify
\* reads.
ExactFit(self, coords) ==
    CASE self.kind = "LS" ->
            LET X == Features(coords)
            IN  ExactInv(MSum([i \in 1..Len(X) |-> Outer(X[i], X[i])]))
      [] self.kind = "LDA" -> DyadicRows(self.means) /\ ExactInv(self.sigma)
      [] self.kind = "QDA" ->
            /\ DyadicRows(self.means)
            /\ \A j \in 1..Len(self.classes) : ExactInv(self.covariance[j])

\* The scores of the columns T at x, equal as real numbers, are equal
\* doubles in every build: all of them are exact zeros (least squares, a
\* zero row), or nothing was rounded and the logarithms they carry are
\* logarithms of the same doubles.
CertainTie(self, coords, x, T) ==
    CASE self.kind = "LS" -> (\A c \in DOMAIN x : x[c] = 0) \/ ExactFit(self, coords)
      [] self.kind = "LDA" ->
            /\ ExactFit(self, coords)
            /\ \A i, j \in T : self.constants[i] = self.constants[j]
      [] self.kind = "QDA" ->
            /\ ExactFit(self, coords)
            /\ \A i, j \in T :
                 /\ self.probabilities[i] = self.probabilities[j]
                 /\ self.covariance_det[i] = self.covariance_det[j]

\* An unknown score of column j at x can come out on top.  With the
\* inverse of a rank-deficient covariance (the adjugate over a positive
\* residue) the quadratic form of the quadratic discriminant is huge
\* wherever the form of the adjugate is positive, and the score is then
\* far below every known score.
CanWin(self, x, j) ==
    IF self.kind # "QDA" THEN TRUE
    ELSE LET c == self.covariance[j]
             xs == VSub(VR(x), self.means[IndexOf(self.groups, self.classes[j])])
             adj == << <<c[2][2], RNeg(c[1][2])>>, <<RNeg(c[2][1]), c[1][1]>> >>
         IN  Dot(xs, MatVec(adj, xs)) = Zero

\* What the rounding of a build can do at a row x: favour none of the
\* columns (0), or one of them: a column that ties for the maximum as a
\* real number without being certain to tie as a double, or a column whose
\* score is unknown.
Favoured(self, coords, x) ==
    LET row == Row(self, x)
        T == Maxima(Rounded(row, 0))
    IN  {0}
        \cup (IF Cardinality(T) >= 2 /\ ~CertainTie(self, coords, x, T) THEN T ELSE {})
        \cup {j \in DOMAIN row : LIsUnknown(row[j]) /\ CanWin(self, x, j)}

\* The same over the rows of a sample matrix, equal rows treated alike.
RECURSIVE Roundings(_, _, _)
Roundings(self, coords, samples) ==
    IF samples = <<>> THEN {[x \in Points |-> 0]}
    ELSE LET x == samples[Len(samples)]
             favoured == Favoured(self, coords, x)
         IN  {[f EXCEPT ![x] = c] :
                 f \in Roundings(self, coords, SubSeq(samples, 1, Len(samples) - 1)),
                 c \in favoured}

\* (yhat != values).mean(): the share of rows whose prediction differs.
MismatchRate(labels, values) ==
    Rat(Cardinality({i \in DOMAIN labels : labels[i] # values[i]}), Len(labels))

\* ================================================================ state
VARIABLES
    coords,     \* the training feature matrix, a sequence of rows
    values,     \* the training label vector
    kind,       \* the constructor that ran: "LS", "LDA", "QDA"; "none" before
    pc,         \* "new", "fitted" or "failed"
    error,      \* the exception the constructor raised, or "none"
    linalg,     \* linear-algebra calls (np.dot, np.outer, np.cov, inv, det)
                \* the constructor completed before it returned or raised
    model,      \* the classifier object
    fitted,     \* the classifier object as the constructor left it
    eval,       \* the evaluation table the caller holds: feature rows
                \* and their row index
    rounding,   \* per row of the evaluation table, the column whose score
                \* the rounding of this build favours (0: none)
    call,       \* the last call made and what it returned
    repeat      \* "same"/"differ": the last call repeated the one before
                \* it and returned the same / another result; else "n/a"

vars == <<coords, values, kind, pc, error, linalg, model, fitted, eval, rounding,
          call, repeat>>

\* ------------------------------------------------------------- inputs
\* Training tables: any choice of rows out of a pool of labelled
\* observations, in label order (class 1 above the diagonal, class 2
\* below it, the two sharing the origin, one row of class 2 off the unit
\* square); the label vector has the same rows, or its last row missing,
\* or one more row.
AllRows == << [y |-> 1, x |-> <<0, 0>>], [y |-> 1, x |-> <<0, 1>>],
              [y |-> 1, x |-> <<1, 1>>], [y |-> 2, x |-> <<0, 0>>],
              [y |-> 2, x |-> <<1, 0>>], [y |-> 2, x |-> <<15, 11>>] >>

\* The labels the observations carry.
ObservedLabels == {AllRows[i].y : i \in 1..Len(AllRows)}

TableOf(S) == [k \in 1..Cardinality(S) |-> AllRows[SortedSeq(S)[k]]]

SampleMatrices == UNION {[1..m -> Points] : m \in 1..MaxSamples}
IndexChoices(m) == {[i \in 1..m |-> i - 1], [i \in 1..m |-> 10 * i]}
NoEval == [samples |-> <<>>, index |-> <<>>]

Init ==
    /\ \E S \in (SUBSET (1..Len(AllRows))) \ {{}} :
         LET t == TableOf(S)
             y == [i \in 1..Len(t) |-> t[i].y]
         IN  /\ coords = [i \in 1..Len(t) |-> t[i].x]
             /\ values \in {y, SubSeq(y, 1, Len(y) - 1)} \cup {Append(y, l) : l \in Labels}
    /\ kind = "none"
    /\ pc = "new"
    /\ error = "none"
    /\ linalg = 0
    /\ model = NoModel
    /\ fitted = NoModel
    /\ eval = NoEval
    /\ rounding = [x \in Points |-> 0]
    /\ call = [op |-> "none", args |-> <<>>]
    /\ repeat = "n/a"

\* ------------------------------------------------------------ actions
Construct(k, r) ==
    /\ pc = "new"
    /\ kind' = k
    /\ pc' = r.status
    /\ error' = r.error
    /\ linalg' = r.linalg
    /\ model' = r.model
    /\ fitted' = r.model
    /\ UNCHANGED <<coords, values, eval, rounding, call, repeat>>

\* Each constructor, under every outcome the libraries of a build allow.
FitLeastSquares ==
    /\ pc = "new"
    /\ \E r \in {LeastSquaresClassifier(coords, values, lu) : lu \in LuOutcomes} :
         Construct("LS", r)
FitLinearDiscriminant ==
    /\ pc = "new"
    /\ \E r \in {LinearDiscriminantClassifier(coords, values, lu) : lu \in LuOutcomes} :
         Construct("LDA", r)
FitQuadraticDiscriminant ==
    /\ pc = "new"
    /\ \E r \in {QuadraticDiscriminantClassifier(coords, values, pandas, lu) :
                     pandas \in PandasReleases, lu \in LuOutcomes} :
         Construct("QDA", r)

\* The caller brings an evaluation table to the fitted model; what the
\* arithmetic of the build does on its rows is settled from here on.
LoadSamples ==
    /\ pc = "fitted"
    /\ eval = NoEval
    /\ \E samples \in SampleMatrices :
       \E index \in IndexChoices(Len(samples)) :
         /\ eval' = [samples |-> samples, index |-> index]
         /\ rounding' \in Roundings(model, coords, samples)
    /\ UNCHANGED <<coords, values, kind, pc, error, linalg, model, fitted, call, repeat>>

Record(c) ==
    /\ call' = c
    /\ repeat' = IF call.op = c.op /\ call.args = c.args
                 THEN (IF call.ret = c.ret THEN "same" ELSE "differ")
                 ELSE "n/a"

CallClassify ==
    /\ pc = "fitted"
    /\ eval # NoEval
    /\ LET r == Classify(model, eval.samples, eval.index, rounding)
       IN  /\ model' = r.self
           /\ Record([op |-> "classify", args |-> <<eval.samples, eval.index>>,
                      ret |-> r.ret])
    /\ UNCHANGED <<coords, values, kind, pc, error, linalg, fitted, eval, rounding>>

\* classification_error_rate(classifier, coords, values) on the table held,
\* with any observed labels as the truth; values carries the row index of
\* coords.  pandas compares two series only when their row indexes are
\* identical and raises ValueError otherwise.
classification_error_rate(r, index, truth) ==
    IF r.error # "none" THEN [error |-> r.error]
    ELSE IF r.index # index THEN [error |-> "ValueError"]
    ELSE [error |-> "none", rate |-> MismatchRate(r.labels, truth)]

CallErrorRate ==
    /\ pc = "fitted"
    /\ eval # NoEval
    /\ LET r == Classify(model, eval.samples, eval.index, rounding)
       IN  /\ model' = r.self
           /\ \E truth \in [1..Len(eval.samples) -> ObservedLabels] :
                Record([op |-> "error_rate",
                        args |-> <<eval.samples, eval.index, truth>>,
                        ret |-> classification_error_rate(r.ret, eval.index, truth)])
    /\ UNCHANGED <<coords, values, kind, pc, error, linalg, fitted, eval, rounding>>

\* indicator_matrix(values) on the training label vector.
CallIndicatorMatrix ==
    /\ Record([op |-> "indicator_matrix", args |-> <<values>>,
               ret |-> indicator_matrix(values)])
    /\ UNCHANGED <<coords, values, kind, pc, error, linalg, model, fitted, eval, rounding>>

Next ==
    \/ FitLeastSquares
    \/ FitLinearDiscriminant
    \/ FitQuadraticDiscriminant
    \/ LoadSamples
    \/ CallClassify
    \/ CallErrorRate
    \/ CallIndicatorMatrix

Spec == Init /\ [][Next]_vars

\* =============================================================== claims
RECURSIVE IntSum(_)
IntSum(s) == IF s = <<>> THEN 0 ELSE Head(s) + IntSum(Tail(s))

ClassifyReturned == call.op = "classify" /\ call.ret.error = "none"
IndicatorReturned == call.op = "indicator_matrix" /\ call.ret.error = "none"
WellFormedTraining == Len(values) = Len(coords)

\* The rows of x2 that carry label c.
TrainingCount(c) == Cardinality({i \in DOMAIN coords : AlignedLabels(coords, values)[i] = c})

\* C1: every label classify returns is a member of the Class set
\* sorted(set(y)) recorded when the classifier was fitted.
C1_PredictionsInClassSet ==
    ClassifyReturned =>
        \A i \in DOMAIN call.ret.labels : call.ret.labels[i] \in Range(fitted.classes)

\* C2: every row of indicator_matrix(y) sums to exactly 1.
C2_RowsSumToOne ==
    IndicatorReturned =>
        \A i \in DOMAIN call.ret.rows : IntSum(call.ret.rows[i]) = 1

C2_Witness ==
    /\ IndicatorReturned
    /\ Len(call.ret.rows) >= 3
    /\ Cardinality(Range(values)) = 2

\* C3: indicator_matrix(y) is an n-by-k 0/1 matrix, n the length of y and
\* k its number of distinct labels; its columns are the distinct labels in
\* ascending order, and entry [i][j] is 1 exactly when label i is the j-th
\* of them.
C3_IndicatorShape ==
    IndicatorReturned =>
        LET M == call.ret.rows
            cols == call.ret.columns
        IN  /\ Len(M) = Len(values)
            /\ Len(cols) = Cardinality(Range(values))
            /\ Range(cols) = Range(values)
            /\ \A j \in 1..(Len(cols) - 1) : cols[j] < cols[j + 1]
            /\ \A i \in DOMAIN M :
                 /\ Len(M[i]) = Len(cols)
                 /\ \A j \in DOMAIN cols :
                      /\ M[i][j] \in {0, 1}
                      /\ M[i][j] = 1 <=> values[i] = cols[j]

C3_Witness ==
    /\ IndicatorReturned
    /\ Len(values) >= 2
    /\ values[1] > values[Len(values)]

\* C4: when two or more classes share the maximal score of a row, classify
\* predicts the first of them in class order, and a repeated call returns
\* the same labels.
C4_TieBreakFirst ==
    ClassifyReturned =>
        /\ \A i \in DOMAIN call.ret.labels :
             LET tied == Maxima(Scores(model, eval.samples, rounding)[i])
             IN  Cardinality(tied) >= 2 =>
                   call.ret.labels[i] =
                       model.classes[CHOOSE j \in tied : \A t \in tied : j <= t]
        /\ repeat # "differ"

C4_Witness ==
    /\ ClassifyReturned
    /\ kind = "LDA"
    /\ repeat = "same"
    /\ eval.samples[1] = <<1, 1>>
    /\ Maxima(Scores(model, eval.samples, rounding)[1]) = {1, 2}
    /\ CertainTie(model, coords, eval.samples[1], {1, 2})
    /\ call.ret.labels[1] = 1

\* C5: classify leaves the fitted model as the constructor built it (class
\* set, class order and every parameter), and a call repeated with the
\* same input returns the same output.
C5_FittedModelImmutable ==
    /\ pc = "fitted" => model = fitted
    /\ call.op = "classify" => repeat # "differ"

C5_Witness ==
    /\ pc = "fitted"
    /\ kind = "LDA"
    /\ ClassifyReturned
    /\ repeat = "same"
    /\ Len(fitted.classes) = 2

\* C6: classification_error_rate returns the number of rows whose
\* prediction differs from the true label over the number of rows, a
\* value between 0 and 1.
C6_ErrorRateIsMismatchShare ==
    (call.op = "error_rate" /\ WellFormedTraining) =>
        /\ call.ret.error = "none"
        /\ call.ret.rate =
              Rat(Cardinality({i \in DOMAIN eval.samples :
                      Classify(model, eval.samples, eval.index, rounding).ret.labels[i]
                          # call.args[3][i]}),
                  Len(eval.samples))
        /\ RLeq(Zero, call.ret.rate)
        /\ RLeq(call.ret.rate, R(1))

\* C7: classify returns one label per input row, under the row index of
\* the input matrix.
C7_OutputCarriesRowIndex ==
    ClassifyReturned =>
        /\ Len(call.ret.labels) = Len(eval.samples)
        /\ call.ret.index = eval.index

\* C8: indicator_matrix of an empty label vector fails with an error.
C8_EmptyLabelsRejected ==
    (call.op = "indicator_matrix" /\ values = <<>>) => call.ret.error # "none"

\* C9: a constructor given a feature matrix and a label vector of
\* different lengths raises before it runs any linear-algebra step.
C9_MismatchDetectedFirst ==
    (pc # "new" /\ ~WellFormedTraining) => (pc = "failed" /\ linalg = 0)

\* C10: QuadraticDiscriminantClassifier produces no model, and raises,
\* whenever some class has fewer than p + 1 training rows.
C10_QdaNeedsRowsPerClass ==
    (kind = "QDA" /\ \E c \in Range(values) : TrainingCount(c) < Len(coords[1]) + 1) =>
        /\ pc = "failed"
        /\ error # "none"
        /\ model = NoModel

====
